---------------------------- MODULE Spec2Model ----------------------------
(***************************************************************************)
(* Model of connector.py: the incremental Intercom reporting-data export.  *)
(* update() plans a time window from the persisted state and the clock,    *)
(* enqueues an export job, polls it, downloads the CSV, upserts one row    *)
(* per record and finally checkpoints the end of the window.               *)
(*                                                                         *)
(* Spec     : repeated invocations of update() (the poll uses the default  *)
(*            arguments of _poll_job, as update() calls it).               *)
(* SpecPoll : _poll_job() on its own, for every max_tries / poll_interval  *)
(*            and every sequence of poll responses.                        *)
(***************************************************************************)
EXTENDS Integers, Sequences, FiniteSets, TLC

VARIABLES
    configuration,  \* the configuration dict (constant during a behaviour)
    state,          \* the persisted state dict handed to update()
    clock,          \* datetime.now(timezone.utc).timestamp(), truncated
    pc,             \* position of the running invocation
    window_seconds, \* local of update()
    start_ts,       \* local of update()
    end_ts,         \* local of update()
    now_ts,         \* the clock value read at line 123
    job_id,         \* local of update() / argument of _poll_job
    max_tries,      \* argument of _poll_job
    poll_interval,  \* argument of _poll_job
    attempt,        \* number of loop iterations of _poll_job started
    resp,           \* the last response of the running _poll_job
    job_info,       \* value returned by _poll_job
    enqueued,       \* payloads posted to the enqueue endpoint
    csv_text,       \* the downloaded payload, decoded: a sequence of characters
    csv_reader,     \* the csv.DictReader over csv_text
    ops,            \* operations handed to the sink by this invocation
    outcome,        \* how the invocation ended
    error,          \* the exception that ended it
    polls,          \* requests.get calls made by the running _poll_job
    sleeps,         \* time.sleep calls made by the running _poll_job
    slept,          \* seconds slept by the running _poll_job
    downloads,      \* download requests made by this invocation
    loaded,         \* the state this invocation was called with
    prev,           \* the previous invocation, if it failed: its state and window
    synced,         \* the windows whose checkpoint was committed, in their order
    runs            \* number of invocations started

vars == <<configuration, state, clock, pc, window_seconds, start_ts, end_ts,
          now_ts, job_id, max_tries, poll_interval, attempt, resp,
          job_info, enqueued, csv_text, csv_reader, ops,
          outcome, error, polls, sleeps, slept, downloads, loaded, prev,
          synced, runs>>

-----------------------------------------------------------------------------
(* Bounds of the model *)

MaxRuns == 2        \* invocations of update() per behaviour
MaxRows == 2        \* data records per downloaded payload
MaxTries == 4       \* largest max_tries given to _poll_job in SpecPoll
MaxAttrLen == 4     \* characters of an attribute_ids string in SpecAttrs

(* Program constants *)

DEFAULT_WINDOW_SECONDS == 3600
DEFAULT_POLL_INTERVAL == 10
DEFAULT_MAX_TRIES == 60
SECONDS_PER_DAY == 86400

-----------------------------------------------------------------------------
(* Python values appearing in the configuration *)

PyNone == [t |-> "none", v |-> 0, s |-> <<>>]
PyInt(n) == [t |-> "int", v |-> n, s |-> <<>>]
PyStr(chars) == [t |-> "str", v |-> 0, s |-> chars]

Digits == <<"0", "1", "2", "3", "4", "5", "6", "7", "8", "9">>

IsDigit(c) == \E i \in 1..10 : Digits[i] = c

DigitVal(c) == (CHOOSE i \in 1..10 : Digits[i] = c) - 1

RECURSIVE DigitsVal(_)
DigitsVal(chars) ==
    IF chars = <<>> THEN 0
    ELSE 10 * DigitsVal(SubSeq(chars, 1, Len(chars) - 1))
         + DigitVal(chars[Len(chars)])

\* int(str) accepts an optional sign followed by at least one digit
StrBody(chars) ==
    IF chars # <<>> /\ chars[1] \in {"-", "+"} THEN Tail(chars) ELSE chars

StrIsInt(chars) ==
    /\ StrBody(chars) # <<>>
    /\ \A i \in 1..Len(StrBody(chars)) : IsDigit(StrBody(chars)[i])

StrToInt(chars) ==
    IF chars[1] = "-" THEN 0 - DigitsVal(StrBody(chars))
    ELSE DigitsVal(StrBody(chars))

\* _as_int(val, default): int(val), or default on TypeError / ValueError
AsInt(val, default) ==
    IF val.t = "int" THEN PyInt(val.v)
    ELSE IF val.t = "str" /\ StrIsInt(val.s) THEN PyInt(StrToInt(val.s))
    ELSE default

\* Python truthiness of a value
Truthy(val) ==
    \/ val.t = "int" /\ val.v # 0
    \/ val.t = "str" /\ val.s # <<>>

Min(a, b) == IF a <= b THEN a ELSE b

-----------------------------------------------------------------------------
(* Values of the model *)

EmptyState == [has |-> FALSE, last_end_time |-> 0]
StateOf(n) == [has |-> TRUE, last_end_time |-> n]

NoJob == ""
JobIds == {"job-1", "job-2"}

\* job identifiers the enqueue endpoint answers with
EnqueuedJobIds == {"job-1"}

NoError == [stage |-> "", exc |-> "", job |-> NoJob, status |-> ""]
Raised(stage, exc, job, status) ==
    [stage |-> stage, exc |-> exc, job |-> job, status |-> status]

NoPrev == [outcome |-> "none", loaded |-> EmptyState, start |-> 0, end |-> 0, now |-> 0]

\* HTTP status codes a response can carry; the body of a 4xx or 5xx response
\* is never read, so those responses are drawn with one body only
HttpCodes == {200, 304, 404, 500}
ErrorCodes == {c \in HttpCodes : c >= 400}

\* requests.Response.raise_for_status(): raises HTTPError for 4xx and 5xx only
RaisesForStatus(code) == 400 <= code /\ code < 600

\* bodies of a poll response: a JSON object with or without "status" and
\* "download_url", or a body that is not JSON
NotJson == [json |-> FALSE, status |-> "", has_url |-> FALSE]
JsonInfo(status, url) == [json |-> TRUE, status |-> status, has_url |-> url]
NoInfo == JsonInfo("", FALSE)

\* "" stands for a body without a "status" key (info.get("status", ""))
Statuses == {"complete", "failed", "error", "pending", ""}

\* "download_url" is read only from a body whose status is "complete"
PollBodies ==
    {NotJson, JsonInfo("complete", TRUE)}
        \cup {JsonInfo(st, FALSE) : st \in Statuses}

\* bodies drawn with a 3xx response
RedirectBodies == {NotJson, JsonInfo("complete", TRUE), JsonInfo("pending", FALSE)}

PollResponses ==
    [code : {200}, body : PollBodies]
        \cup [code : HttpCodes \ (ErrorCodes \cup {200}), body : RedirectBodies]
        \cup [code : ErrorCodes, body : {NotJson}]

NoResponse == [code |-> 0, body |-> NotJson]

\* bodies of an enqueue response: job is NoJob when "job_identifier" is absent
SubmitResponses ==
    [code : HttpCodes \ ErrorCodes, json : {TRUE}, job : EnqueuedJobIds \cup {NoJob}]
        \cup [code : HttpCodes, json : {FALSE}, job : {NoJob}]

-----------------------------------------------------------------------------
(* The downloaded payload and csv.DictReader.  A text is a sequence of   *)
(* characters; the csv module splits it into records at the line ends and  *)
(* a record into fields at the commas (a blank line is the empty record);  *)
(* the first record read is the header.                                    *)

\* stands for a run of characters longer than the field size limit of the
\* csv module, which raises csv.Error on the record that holds it
TooLong == "<field larger than field limit>"

\* str.split(sep): the pieces of chars between the occurrences of sep
SplitOn(chars, sep) ==
    LET cuts == {0, Len(chars) + 1} \cup {i \in 1..Len(chars) : chars[i] = sep}
        Pieces(at) ==
            [k \in 1..(Cardinality(at) - 1) |->
                LET lo == CHOOSE i \in at : Cardinality({j \in at : j < i}) = k - 1
                    hi == CHOOSE i \in at : Cardinality({j \in at : j < i}) = k
                IN  SubSeq(chars, lo + 1, hi - 1)]
    IN  CHOOSE pieces \in {Pieces(at) : at \in {cuts}} : TRUE

\* the lines io.StringIO hands to the csv reader, without their line ends
CsvLines(text) ==
    LET parts == SplitOn(text, "\n")
    IN  IF parts[Len(parts)] = <<>> THEN SubSeq(parts, 1, Len(parts) - 1) ELSE parts

\* the fields of one line; a blank line is the record []
CsvFields(line) == IF line = <<>> THEN <<>> ELSE SplitOn(line, ",")

CsvRecords(text) ==
    LET Records(lines) == [i \in 1..Len(lines) |-> CsvFields(lines[i])]
    IN  CHOOSE records \in {Records(lines) : lines \in {CsvLines(text)}} : TRUE

\* the csv module raises csv.Error on this record
Rejected(record) ==
    \E i \in 1..Len(record) : \E j \in 1..Len(record[i]) : record[i][j] = TooLong

HeaderLine == <<"a", ",", "b", "\n">>

DataLines ==
    {<<"1", ",", "\n">>, <<"2", ",", "x", "y", "\n">>, <<"\n">>, <<TooLong, "\n">>}

RECURSIVE SeqsUpTo(_, _)
SeqsUpTo(S, n) ==
    IF n = 0 THEN {<<>>}
    ELSE LET shorter == SeqsUpTo(S, n - 1)
         IN  shorter \cup {Append(q, x) : q \in {r \in shorter : Len(r) = n - 1}, x \in S}

RECURSIVE Flatten(_)
Flatten(seqs) == IF seqs = <<>> THEN <<>> ELSE Head(seqs) \o Flatten(Tail(seqs))

\* the empty text, or a header line followed by at most MaxRows lines
Payloads ==
    {<<>>} \cup {HeaderLine \o Flatten(lines) : lines \in SeqsUpTo(DataLines, MaxRows)}

\* resp.content that is not valid UTF-8
InvalidUtf8 == <<"<invalid utf-8>">>

DownloadResponses ==
    [code : HttpCodes \ ErrorCodes, content : Payloads \cup {InvalidUtf8}]
        \cup [code : ErrorCodes, content : {<<>>}]

\* values of an upserted row
Cell(text) == [kind |-> "str", text |-> text, items |-> <<>>]
NoneCell == [kind |-> "none", text |-> <<>>, items |-> <<>>]
ListCell(items) == [kind |-> "list", text |-> <<>>, items |-> items]

\* the key None, under which DictReader stores surplus fields (restkey)
RestKey == <<"<None>">>

NewReader == [pos |-> 0, has_fieldnames |-> FALSE, fieldnames |-> <<>>]

\* index of the first record after pos that is not blank, Len(records) + 1
\* if there is none
RECURSIVE NextRecord(_, _)
NextRecord(records, pos) ==
    IF pos + 1 > Len(records) THEN pos + 1
    ELSE IF records[pos + 1] = <<>> THEN NextRecord(records, pos + 1)
    ELSE pos + 1

\* DictReader.fieldnames: the first record, read on first use
WithFieldnames(records, reader) ==
    IF reader.has_fieldnames \/ reader.pos # 0 THEN reader
    ELSE IF Len(records) = 0 THEN reader
    ELSE [pos |-> 1, has_fieldnames |-> TRUE, fieldnames |-> records[1]]

\* dict(zip(fieldnames, row)), then restkey / restval
DictRow(fieldnames, row) ==
    LET lf == Len(fieldnames)
        lr == Len(row)
        n == Min(lf, lr)
        zipped == {fieldnames[i] : i \in 1..n}
        missing == {fieldnames[i] : i \in (lr + 1)..lf}
        keys == zipped \cup missing \cup (IF lf < lr THEN {RestKey} ELSE {})
        last(k) == CHOOSE i \in 1..n :
                      /\ fieldnames[i] = k
                      /\ \A j \in 1..n : fieldnames[j] = k => j <= i
    IN  [k \in keys |->
            IF k \in missing THEN NoneCell
            ELSE IF lf < lr /\ k = RestKey THEN ListCell(SubSeq(row, lf + 1, lr))
            ELSE Cell(row[last(k)])]

\* variant: empty strings are upserted as they are
CleanedAsRead(row) == row

\* line 148: {k: (v if v != "" else None) for k, v in row.items()}
Cleaned(row) ==
    [k \in DOMAIN row |->
        IF row[k].kind = "str" /\ row[k].text = <<>> THEN NoneCell ELSE row[k]]

\* DictReader.__next__: "stop" at the end of the text, "error" on a record
\* the csv module rejects, else the next row and the advanced reader
ReaderNext(text, reader) ==
    LET Read(records) ==
            LET r1 == WithFieldnames(records, reader)
                headerBad == reader.pos = 0 /\ Len(records) > 0 /\ Rejected(records[1])
                at == NextRecord(records, r1.pos)
            IN  IF headerBad THEN [kind |-> "error", reader |-> r1, row |-> <<>>]
                ELSE IF at > Len(records) THEN [kind |-> "stop", reader |-> r1, row |-> <<>>]
                ELSE IF Rejected(records[at]) THEN [kind |-> "error", reader |-> r1, row |-> <<>>]
                ELSE [kind |-> "row",
                      reader |-> [r1 EXCEPT !.pos = at],
                      row |-> DictRow(r1.fieldnames, records[at])]
    IN  CHOOSE next \in {Read(records) : records \in {CsvRecords(text)}} : TRUE

Upsert(table, data) == [op |-> "upsert", table |-> table, data |-> data, last_end_time |-> 0]
CheckpointOp(new_state) ==
    [op |-> "checkpoint", table |-> "", data |-> <<>>, last_end_time |-> new_state.last_end_time]

-----------------------------------------------------------------------------
(* Inputs *)

Times == {2000, 5000}

WindowSecondsConfigs ==
    {PyNone, PyStr(<<"1", "0", "0">>), PyStr(<<"1", "h">>), PyInt(0), PyInt(-5)}

InitialStartConfigs == {PyNone, PyInt(0), PyStr(<<"9", "0", "0">>)}

\* configuration["attribute_ids"]: missing, a string or a list of strings
AttrNone == [kind |-> "none", text |-> <<>>, items |-> <<>>]
AttrStr(chars) == [kind |-> "str", text |-> chars, items |-> <<>>]
AttrList(items) == [kind |-> "list", text |-> <<>>, items |-> items]

CommaString == AttrStr(<<"a", ",", " ", "b", ",", "c">>)

Configurations ==
    [window_seconds : WindowSecondsConfigs,
     initial_start_time : InitialStartConfigs,
     dataset_id : {"conversation"},
     attribute_ids : {CommaString}]

InitialStates == {EmptyState, StateOf(1000)}

\* initial_start_time is read only when the state is empty (line 117), so a
\* run that starts from a checkpoint is drawn with one value of it; without
\* a checkpoint, one of the two optional keys is varied at a time
Inputs ==
    {in \in [conf : Configurations, st : InitialStates] :
        /\ in.st.has => in.conf.initial_start_time = PyNone
        /\ \/ in.conf.initial_start_time = PyNone
           \/ in.conf.window_seconds = PyNone}

-----------------------------------------------------------------------------
(* update(): window planning, lines 111-128 *)

\* line 111
WindowSeconds(conf) == AsInt(conf.window_seconds, PyInt(DEFAULT_WINDOW_SECONDS)).v

\* variant: the checkpoint is not consulted
PlanStartIgnoringState(conf, st, now) ==
    LET configured == AsInt(conf.initial_start_time, PyNone)
    IN  IF ~Truthy(configured) THEN now - SECONDS_PER_DAY
        ELSE configured.v

\* variant: the window starts at the checkpoint itself
PlanStartAtCheckpoint(conf, st, now) ==
    IF st.has THEN st.last_end_time
    ELSE LET configured == AsInt(conf.initial_start_time, PyNone)
         IN  IF ~Truthy(configured) THEN now - SECONDS_PER_DAY
             ELSE configured.v

\* lines 113-120; now is the clock read at line 120
PlanStart(conf, st, now) ==
    IF st.has THEN st.last_end_time + 1
    ELSE LET configured == AsInt(conf.initial_start_time, PyNone)
         IN  IF ~Truthy(configured) THEN now - SECONDS_PER_DAY
             ELSE configured.v

\* variant: the end of the window is not capped at the current time
PlanEndUncapped(start, span, now) == start + span

\* variant: the window always runs up to the current time
PlanEndIgnoringSpan(start, span, now) == now

\* line 123; now is the clock read at line 123
PlanEnd(start, span, now) == Min(start + span, now)

\* variant: every window is extracted
NoWindowNever(start, end) == FALSE

\* variant: an empty window (start = end) is let through
NoWindowStrict(start, end) == start > end

\* line 126
NoWindow(start, end) == start >= end

Init ==
    /\ \E in \in Inputs :
          /\ configuration = in.conf
          /\ state = in.st
    /\ clock \in Times
    /\ pc = "idle"
    /\ window_seconds = 0
    /\ start_ts = 0
    /\ end_ts = 0
    /\ now_ts = 0
    /\ job_id = NoJob
    /\ max_tries = 0
    /\ poll_interval = 0
    /\ attempt = 0
    /\ resp = NoResponse
    /\ job_info = NoInfo
    /\ enqueued = <<>>
    /\ csv_text = <<>>
    /\ csv_reader = NewReader
    /\ ops = <<>>
    /\ outcome = "none"
    /\ error = NoError
    /\ polls = 0
    /\ sleeps = 0
    /\ slept = 0
    /\ downloads = 0
    /\ loaded = state
    /\ prev = NoPrev
    /\ synced = <<>>
    /\ runs = 0

\* the wall clock advances between the two reads of update(), lines 120 and
\* 123 (Invoke covers the time that passes between invocations)
Tick ==
    /\ pc = "plan_end"
    /\ clock' \in {t \in Times : t > clock}
    /\ UNCHANGED <<configuration, state, pc, window_seconds, start_ts, end_ts,
                   now_ts, job_id, max_tries, poll_interval, attempt, resp, job_info,
                   enqueued, csv_text, csv_reader, ops, outcome, error, polls,
                   sleeps, slept, downloads, loaded, prev, synced, runs>>

\* variant: the failed stage sends the invocation back to the submission
FailAndRetry(stage, exc, job, status) ==
    /\ pc' = "submit"
    /\ outcome' = outcome
    /\ error' = Raised(stage, exc, job, status)

\* an exception leaves update(): the invocation is over, nothing is persisted
Fail(stage, exc, job, status) ==
    /\ pc' = "done"
    /\ outcome' = "failed"
    /\ error' = Raised(stage, exc, job, status)

\* update() is called at some time: lines 90-120
Invoke ==
    /\ pc \in {"idle", "done"}
    /\ runs < MaxRuns
    /\ runs' = runs + 1
    /\ clock' \in Times
    /\ prev' = IF outcome = "failed"
               THEN [outcome |-> outcome, loaded |-> loaded, start |-> start_ts,
                     end |-> end_ts, now |-> now_ts]
               ELSE NoPrev
    /\ window_seconds' = WindowSeconds(configuration)
    /\ start_ts' = PlanStart(configuration, state, clock')
    /\ end_ts' = 0
    /\ now_ts' = 0
    /\ job_id' = NoJob
    /\ max_tries' = 0
    /\ poll_interval' = 0
    /\ attempt' = 0
    /\ resp' = NoResponse
    /\ job_info' = NoInfo
    /\ enqueued' = <<>>
    /\ csv_text' = <<>>
    /\ csv_reader' = NewReader
    /\ ops' = <<>>
    /\ outcome' = "running"
    /\ error' = NoError
    /\ polls' = 0
    /\ sleeps' = 0
    /\ slept' = 0
    /\ downloads' = 0
    /\ loaded' = state
    /\ pc' = "plan_end"
    /\ UNCHANGED <<configuration, state, synced>>

\* lines 123-128: the end of the window, and the early return
PlanWindow ==
    /\ pc = "plan_end"
    /\ now_ts' = clock
    /\ end_ts' = PlanEnd(start_ts, window_seconds, clock)
    /\ IF NoWindow(start_ts, end_ts')
       THEN pc' = "done" /\ outcome' = "noop"
       ELSE pc' = "submit" /\ outcome' = outcome
    /\ UNCHANGED <<configuration, state, clock, window_seconds, start_ts, job_id,
                   max_tries, poll_interval, attempt, resp, job_info, enqueued,
                   csv_text, csv_reader, ops, error, polls, sleeps, slept,
                   downloads, loaded, prev, synced, runs>>

-----------------------------------------------------------------------------
(* _enqueue_job, lines 16-37 *)

\* lines 25-30
EnqueuePayload(conf, start, end, attribute_ids) ==
    [dataset_id |-> conf.dataset_id, attribute_ids |-> attribute_ids,
     start_time |-> start, end_time |-> end]

IsSpace(c) == c \in {" ", "\t", "\n", "\r"}

\* str.strip()
RECURSIVE Strip(_)
Strip(chars) ==
    IF chars = <<>> THEN <<>>
    ELSE IF IsSpace(Head(chars)) THEN Strip(Tail(chars))
    ELSE IF IsSpace(chars[Len(chars)]) THEN Strip(SubSeq(chars, 1, Len(chars) - 1))
    ELSE chars

\* variant: the items of the string are not trimmed
ParseAttributeIdsUntrimmed(raw) ==
    IF raw.kind = "str"
    THEN SelectSeq(SplitOn(raw.text, ","), LAMBDA piece : Strip(piece) # <<>>)
    ELSE raw.items

\* lines 131-135
ParseAttributeIds(raw) ==
    IF raw.kind = "str"
    THEN LET pieces == SplitOn(raw.text, ",")
             stripped == [i \in 1..Len(pieces) |-> Strip(pieces[i])]
         IN  SelectSeq(stripped, LAMBDA piece : piece # <<>>)
    ELSE raw.items

\* variant: the answer of the enqueue request is not checked
SubmitVerdictUnchecked(r) == "ok"

\* lines 34-35
SubmitVerdict(r) ==
    IF RaisesForStatus(r.code) THEN "HTTPError"
    ELSE IF ~r.json THEN "JSONDecodeError"
    ELSE IF r.job = NoJob THEN "KeyError"
    ELSE "ok"

\* lines 131-140, and the call of _poll_job with its default arguments
\* (line 141)
Submit ==
    /\ pc = "submit"
    /\ enqueued' = Append(enqueued,
                          EnqueuePayload(configuration, start_ts, end_ts,
                                         ParseAttributeIds(configuration.attribute_ids)))
    /\ \E got \in SubmitResponses :
          IF SubmitVerdict(got) = "ok"
          THEN /\ job_id' = got.job
               /\ max_tries' = DEFAULT_MAX_TRIES
               /\ poll_interval' = DEFAULT_POLL_INTERVAL
               /\ pc' = "poll"
               /\ UNCHANGED <<outcome, error>>
          ELSE /\ Fail("submit", SubmitVerdict(got), NoJob, "")
               /\ UNCHANGED <<job_id, max_tries, poll_interval>>
    /\ UNCHANGED <<configuration, state, clock, window_seconds, start_ts, end_ts,
                   now_ts, attempt, resp, job_info, csv_text, csv_reader, ops, polls,
                   sleeps, slept, downloads, loaded, prev, synced, runs>>

-----------------------------------------------------------------------------
(* _poll_job, lines 40-69 *)

\* variant: a 404 is raised like any other 4xx
PollVerdictNo404(r) ==
    IF RaisesForStatus(r.code) THEN "HTTPError"
    ELSE IF ~r.body.json THEN "JSONDecodeError"
    ELSE IF r.body.status = "complete" THEN "return"
    ELSE IF r.body.status \in {"failed", "error"} THEN "RuntimeError"
    ELSE "sleep"

\* variant: only "failed" is a failure, "error" is polled again
PollVerdictOnlyFailed(r) ==
    IF r.code = 404 THEN "sleep"
    ELSE IF RaisesForStatus(r.code) THEN "HTTPError"
    ELSE IF ~r.body.json THEN "JSONDecodeError"
    ELSE IF r.body.status = "complete" THEN "return"
    ELSE IF r.body.status = "failed" THEN "RuntimeError"
    ELSE "sleep"

\* variant: a status that is not known is taken for a failure of the job
PollVerdictKnownOnly(r) ==
    IF r.code = 404 THEN "sleep"
    ELSE IF RaisesForStatus(r.code) THEN "HTTPError"
    ELSE IF ~r.body.json THEN "JSONDecodeError"
    ELSE IF r.body.status = "complete" THEN "return"
    ELSE IF r.body.status # "pending" THEN "RuntimeError"
    ELSE "sleep"

\* lines 56-67: what one iteration of the loop does with the response
PollVerdict(r) ==
    IF r.code = 404 THEN "sleep"
    ELSE IF RaisesForStatus(r.code) THEN "HTTPError"
    ELSE IF ~r.body.json THEN "JSONDecodeError"
    ELSE IF r.body.status = "complete" THEN "return"
    ELSE IF r.body.status \in {"failed", "error"} THEN "RuntimeError"
    ELSE "sleep"

\* variant: one iteration too many
InRangeInclusive(i, tries) == i <= tries

\* line 53: the loop runs while attempt is in range(max_tries)
InRange(i, tries) == i < tries

\* line 66: the RuntimeError names the job and the status
JobFailed(job, status) == Raised("poll", "RuntimeError", job, status)

\* lines 53-67: one iteration of the polling loop
PollAttempt ==
    /\ pc = "poll"
    /\ InRange(attempt, max_tries)
    /\ attempt' = attempt + 1
    /\ polls' = polls + 1
    /\ resp' \in PollResponses
    /\ LET verdict == PollVerdict(resp')
       IN  CASE verdict = "sleep" ->
                     /\ sleeps' = sleeps + 1
                     /\ slept' = slept + poll_interval
                     /\ UNCHANGED <<pc, job_info, outcome, error>>
                [] verdict = "return" ->
                     /\ job_info' = resp'.body
                     /\ pc' = "download"
                     /\ UNCHANGED <<sleeps, slept, outcome, error>>
                [] verdict = "RuntimeError" ->
                     /\ pc' = "done"
                     /\ outcome' = "failed"
                     /\ error' = JobFailed(job_id, resp'.body.status)
                     /\ UNCHANGED <<sleeps, slept, job_info>>
                [] OTHER ->
                     /\ Fail("poll", verdict, NoJob, "")
                     /\ UNCHANGED <<sleeps, slept, job_info>>
    /\ UNCHANGED <<configuration, state, clock, window_seconds, start_ts, end_ts,
                   now_ts, job_id, max_tries, poll_interval, enqueued, csv_text,
                   csv_reader, ops, downloads, loaded, prev, synced, runs>>

\* line 69: the loop ended without a return
PollTimeout ==
    /\ pc = "poll"
    /\ ~InRange(attempt, max_tries)
    /\ Fail("poll", "TimeoutError", job_id, "")
    /\ UNCHANGED <<configuration, state, clock, window_seconds, start_ts, end_ts,
                   now_ts, job_id, max_tries, poll_interval, attempt, resp, job_info,
                   enqueued, csv_text, csv_reader, ops, polls, sleeps, slept,
                   downloads, loaded, prev, synced, runs>>

-----------------------------------------------------------------------------
(* _download_csv, lines 72-83, called at line 142 *)

\* lines 82-83
DownloadVerdict(r) ==
    IF RaisesForStatus(r.code) THEN "HTTPError"
    ELSE IF r.content = InvalidUtf8 THEN "UnicodeDecodeError"
    ELSE "ok"

\* line 142: _poll_job has returned and its locals are gone;
\* job_info["download_url"] raises KeyError before any request
Download ==
    /\ pc = "download"
    /\ attempt' = 0
    /\ resp' = NoResponse
    /\ polls' = 0
    /\ sleeps' = 0
    /\ slept' = 0
    /\ IF ~job_info.has_url
       THEN /\ Fail("download", "KeyError", NoJob, "")
            /\ UNCHANGED <<downloads, csv_text, csv_reader>>
       ELSE /\ downloads' = downloads + 1
            /\ \E got \in DownloadResponses :
                  IF DownloadVerdict(got) = "ok"
                  THEN /\ csv_text' = got.content
                       /\ csv_reader' = NewReader
                       /\ pc' = "emit"
                       /\ UNCHANGED <<outcome, error>>
                  ELSE /\ Fail("download", DownloadVerdict(got), NoJob, "")
                       /\ UNCHANGED <<csv_text, csv_reader>>
    /\ UNCHANGED <<configuration, state, clock, window_seconds, start_ts, end_ts,
                   now_ts, job_id, max_tries, poll_interval, job_info, enqueued,
                   ops, loaded, prev, synced, runs>>

-----------------------------------------------------------------------------
(* update(): rows and checkpoint, lines 144-158 *)

\* lines 146-150: the next row is read, cleaned and handed to the sink;
\* csv.Error or an error of the sink ends the invocation
UpsertRow ==
    /\ pc = "emit"
    /\ \E next \in {ReaderNext(csv_text, csv_reader)} :
           /\ next.kind # "stop"
           /\ csv_reader' = next.reader
           /\ IF next.kind = "error"
              THEN /\ Fail("decode", "csv.Error", NoJob, "")
                   /\ ops' = ops
              ELSE /\ ops' = Append(ops, Upsert(configuration.dataset_id,
                                                Cleaned(next.row)))
                   /\ \E delivered \in BOOLEAN :
                         IF delivered
                         THEN UNCHANGED <<pc, outcome, error>>
                         ELSE Fail("upsert", "SinkError", NoJob, "")
    /\ UNCHANGED <<configuration, state, clock, window_seconds, start_ts, end_ts,
                   now_ts, job_id, max_tries, poll_interval, attempt, resp, job_info,
                   enqueued, csv_text, polls, sleeps, slept, downloads, loaded,
                   prev, synced, runs>>

\* variant: the checkpoint is put one second after the window
NewStateAfterWindow(end) == StateOf(end + 1)

\* line 157
NewState(end) == StateOf(end)

\* variant: the end of the rows is never seen
RowsNeverExhausted(text, reader) == FALSE

\* variant: the checkpoint does not wait for the end of the rows
RowsExhaustedOrNot(text, reader) == TRUE

\* line 146: the for loop ends when the reader has no further row
RowsExhausted(text, reader) == ReaderNext(text, reader).kind = "stop"

\* lines 152-158: the reader is exhausted; the checkpoint is handed to the
\* sink, which persists it as the state of the next invocation
Checkpoint ==
    /\ pc = "emit"
    /\ RowsExhausted(csv_text, csv_reader)
    /\ csv_reader' = ReaderNext(csv_text, csv_reader).reader
    /\ ops' = Append(ops, CheckpointOp(NewState(end_ts)))
    /\ \E delivered \in BOOLEAN :
          IF delivered
          THEN /\ state' = NewState(end_ts)
               /\ synced' = Append(synced, [start |-> start_ts, end |-> end_ts])
               /\ pc' = "done"
               /\ outcome' = "success"
               /\ error' = error
          ELSE /\ Fail("checkpoint", "SinkError", NoJob, "")
               /\ UNCHANGED <<state, synced>>
    /\ UNCHANGED <<configuration, clock, window_seconds, start_ts, end_ts, now_ts,
                   job_id, max_tries, poll_interval, attempt, resp, job_info, enqueued,
                   csv_text, polls, sleeps, slept, downloads, loaded, prev, runs>>

-----------------------------------------------------------------------------
(* Specifications *)

Next ==
    \/ Tick
    \/ Invoke
    \/ PlanWindow
    \/ Submit
    \/ PollAttempt
    \/ PollTimeout
    \/ Download
    \/ UpsertRow
    \/ Checkpoint

Spec == Init /\ [][Next]_vars

\* the steps of a running invocation: update() is sequential code, so an
\* invocation that can take its next step takes it (every request returns
\* within its timeout, the sink takes every operation it is handed)
Step ==
    \/ PlanWindow
    \/ Submit
    \/ PollAttempt
    \/ PollTimeout
    \/ Download
    \/ UpsertRow
    \/ Checkpoint

\* the first invocation of a behaviour
FirstInvoke == runs = 0 /\ Invoke

\* one invocation, from any state and configuration
NextLive ==
    \/ FirstInvoke
    \/ Tick
    \/ Step

SpecLive == Init /\ [][NextLive]_vars /\ WF_vars(Step)

\* _poll_job called on its own, with any arguments
PollIntervals == {1, DEFAULT_POLL_INTERVAL}

InitPoll ==
    /\ configuration = [window_seconds |-> PyNone, initial_start_time |-> PyNone,
                        dataset_id |-> "conversation", attribute_ids |-> CommaString]
    /\ state = EmptyState
    /\ clock = 0
    /\ pc = "poll"
    /\ window_seconds = 0
    /\ start_ts = 0
    /\ end_ts = 0
    /\ now_ts = 0
    /\ job_id \in JobIds
    /\ max_tries \in 0..MaxTries
    /\ poll_interval \in PollIntervals
    /\ attempt = 0
    /\ resp = NoResponse
    /\ job_info = NoInfo
    /\ enqueued = <<>>
    /\ csv_text = <<>>
    /\ csv_reader = NewReader
    /\ ops = <<>>
    /\ outcome = "running"
    /\ error = NoError
    /\ polls = 0
    /\ sleeps = 0
    /\ slept = 0
    /\ downloads = 0
    /\ loaded = state
    /\ prev = NoPrev
    /\ synced = <<>>
    /\ runs = 0

NextPoll ==
    \/ PollAttempt
    \/ PollTimeout

SpecPoll == InitPoll /\ [][NextPoll]_vars

\* the parsing of attribute_ids and the submission on their own, with any
\* value of the key
AttrChars == {"a", "b", ",", " "}

AttrLists ==
    {<<>>, <<<<"a">>>>, <<<<" ", "a">>, <<"a", ",", "b">>, <<>>>>, <<<<"b">>, <<"a">>, <<"b">>>>}

AttributeIdsInputs ==
    {AttrNone, CommaString}
        \cup {AttrStr(chars) : chars \in SeqsUpTo(AttrChars, MaxAttrLen)}
        \cup {AttrList(items) : items \in AttrLists}

InitAttrs ==
    /\ \E raw \in AttributeIdsInputs :
          configuration = [window_seconds |-> PyNone, initial_start_time |-> PyNone,
                           dataset_id |-> "conversation", attribute_ids |-> raw]
    /\ state = StateOf(1000)
    /\ clock = 2000
    /\ pc = "submit"
    /\ window_seconds = DEFAULT_WINDOW_SECONDS
    /\ start_ts = 1001
    /\ end_ts = 2000
    /\ now_ts = 2000
    /\ job_id = NoJob
    /\ max_tries = 0
    /\ poll_interval = 0
    /\ attempt = 0
    /\ resp = NoResponse
    /\ job_info = NoInfo
    /\ enqueued = <<>>
    /\ csv_text = <<>>
    /\ csv_reader = NewReader
    /\ ops = <<>>
    /\ outcome = "running"
    /\ error = NoError
    /\ polls = 0
    /\ sleeps = 0
    /\ slept = 0
    /\ downloads = 0
    /\ loaded = state
    /\ prev = NoPrev
    /\ synced = <<>>
    /\ runs = 1

NextAttrs == Submit

SpecAttrs == InitAttrs /\ [][NextAttrs]_vars

-----------------------------------------------------------------------------
(* Properties *)

\* the window of the running invocation has been computed (line 123 done)
Planned == pc \notin {"idle", "plan_end"}

UpsertCount == Cardinality({i \in 1..Len(ops) : ops[i].op = "upsert"})
CheckpointCount == Cardinality({i \in 1..Len(ops) : ops[i].op = "checkpoint"})

\* data records of a payload: every record after the header that is not a
\* blank line
DataRowCount(text) ==
    LET records == CsvRecords(text)
    IN  Cardinality({i \in 2..Len(records) : records[i] # <<>>})
Unreadable(text) == \E i \in 1..Len(text) : text[i] = TooLong

\* C1: a checkpoint is emitted if and only if every row decoded from the
\* payload of the window has been handed to the sink without error: never
\* with a row still undelivered, never after a failure.
C1_CheckpointIffAllRowsDelivered ==
    /\ CheckpointCount > 0 =>
          /\ downloads = 1
          /\ ~Unreadable(csv_text)
          /\ UpsertCount = DataRowCount(csv_text)
          /\ ops[Len(ops)].op = "checkpoint"
          /\ error.stage \in {"", "checkpoint"}
    /\ (pc = "done" /\ error.stage \in {"", "checkpoint"} /\ outcome # "noop") =>
          CheckpointCount > 0
    /\ state # loaded => CheckpointCount > 0 /\ error = NoError

C1_Witness ==
    /\ pc = "done"
    /\ CheckpointCount = 1
    /\ UpsertCount = 2
    /\ DataRowCount(csv_text) = 2

\* C2: within one invocation the submit request precedes every poll request,
\* every poll request precedes the download request, the download precedes
\* every upsert and every upsert precedes the checkpoint; a stage starts only
\* after the stage before it has completed successfully.
C2_StagesInOrder ==
    [][/\ Len(enqueued') > Len(enqueued) =>
             /\ Planned /\ start_ts < end_ts
             /\ enqueued = <<>> /\ polls = 0 /\ downloads = 0 /\ ops = <<>>
       /\ polls' > polls =>
             /\ Len(enqueued) = 1 /\ job_id \in JobIds
             /\ downloads = 0 /\ ops = <<>> /\ error = NoError
       /\ downloads' > downloads =>
             /\ Len(enqueued) = 1 /\ polls >= 1
             /\ resp.body.json /\ resp.body.status = "complete"
             /\ job_info = resp.body
             /\ downloads = 0 /\ ops = <<>> /\ error = NoError
       /\ Len(ops') > Len(ops) =>
             /\ downloads = 1 /\ CheckpointCount = 0 /\ error = NoError
             /\ ops'[Len(ops')].op = "checkpoint" =>
                    UpsertCount = DataRowCount(csv_text)
      ]_vars

C2_Witness ==
    /\ outcome = "success"
    /\ Len(enqueued) = 1
    /\ downloads = 1
    /\ UpsertCount >= 1
    /\ ops[Len(ops)].op = "checkpoint"

\* the invocation is a retry: the one before it failed, and the window of
\* this one has been computed
RetryPlanned == prev.outcome = "failed" /\ Planned

\* C3 as stated: after a failed invocation the checkpoint is unchanged and
\* the next invocation computes the identical window (same start, same end)
\* for every later value of the clock and every configuration, also without
\* a prior checkpoint.
C3_IdenticalWindowAlways ==
    (RetryPlanned /\ now_ts >= prev.now) =>
        /\ loaded = prev.loaded
        /\ start_ts = prev.start
        /\ end_ts = prev.end

\* C3 amended: after a failed invocation the checkpoint is unchanged; the
\* next invocation computes the same start when a prior checkpoint exists or
\* a non-zero initial_start_time is configured, and the same end as well
\* when the failed window was not cut short by the clock and the clock has
\* not gone back.
C3_SameWindowUnlessClockDecides ==
    /\ (pc = "done" /\ outcome = "failed") => state = loaded
    /\ RetryPlanned =>
          /\ loaded = prev.loaded
          /\ (loaded.has \/ configuration.initial_start_time
                               \notin {PyNone, PyInt(0)}) =>
                /\ start_ts = prev.start
                /\ (prev.end = prev.start + window_seconds /\ now_ts >= prev.now) =>
                      end_ts = prev.end

C3_Witness ==
    /\ RetryPlanned
    /\ loaded.has
    /\ now_ts > prev.now
    /\ start_ts = prev.start
    /\ end_ts = prev.end
    /\ pc = "poll"

\* C4: _poll_job issues at most max_tries poll requests; when none of the
\* first max_tries responses ends the loop it raises TimeoutError after
\* exactly max_tries requests, and request max_tries + 1 is never issued.
C4_AtMostMaxTriesPolls ==
    /\ polls <= max_tries
    /\ error.exc = "TimeoutError" =>
          /\ polls = max_tries
          /\ sleeps = max_tries
          /\ pc = "done"
    /\ (pc = "poll" /\ polls = max_tries) =>
          /\ ~ENABLED PollAttempt
          /\ ENABLED PollTimeout
    /\ (pc = "poll" /\ polls < max_tries) => ~ENABLED PollTimeout

C4_Witness ==
    /\ error.exc = "TimeoutError"
    /\ max_tries = 3
    /\ polls = 3
    /\ resp.body.status = "pending"

\* C5: a 404 poll response is not an error: it is followed by one sleep of
\* poll_interval and uses one attempt of the budget; when the loop ends with
\* "complete" at request k, _poll_job returns after exactly k requests with
\* one sleep between each two consecutive requests (k - 1 sleeps).
C5_NotFoundIsRetried ==
    /\ pc = "poll" => sleeps = polls
    /\ slept = sleeps * poll_interval
    /\ resp.code = 404 =>
          /\ attempt = polls
          /\ sleeps = polls
          /\ \/ pc = "poll" /\ error = NoError
             \/ pc = "done" /\ error.exc = "TimeoutError" /\ polls = max_tries
    /\ pc = "download" =>
          /\ resp.body.status = "complete"
          /\ job_info = resp.body
          /\ error = NoError
          /\ polls >= 1 /\ polls <= max_tries
          /\ sleeps = polls - 1

C5_Witness ==
    /\ pc = "download"
    /\ polls = 4
    /\ sleeps = 3
    /\ resp.code = 200

\* C6: a poll response with status "failed" or "error" makes _poll_job raise
\* at once an error naming the job and the status: no sleep and no poll
\* follows, and the invocation downloads, upserts and checkpoints nothing.
C6_JobFailedRaisesAtOnce ==
    /\ (~RaisesForStatus(resp.code) /\ resp.code # 404 /\ resp.body.json
          /\ resp.body.status \in {"failed", "error"}) =>
          /\ pc = "done"
          /\ outcome = "failed"
          /\ error = Raised("poll", "RuntimeError", job_id, resp.body.status)
    /\ error.exc = "RuntimeError" =>
          /\ resp.body.status \in {"failed", "error"}
          /\ error.job = job_id /\ job_id \in JobIds
          /\ error.status = resp.body.status
          /\ sleeps = polls - 1
          /\ attempt = polls
          /\ pc = "done"
          /\ downloads = 0
          /\ ops = <<>>
          /\ state = loaded

C6_Witness ==
    /\ error.exc = "RuntimeError"
    /\ error.status = "error"
    /\ polls = 3
    /\ Len(enqueued) = 1

\* C7 as stated: every poll response whose HTTP status is neither 2xx nor 404
\* aborts _poll_job at once with an error of the request: it is not retried,
\* its body is not read as a job status, and no poll, sleep, download, upsert
\* or checkpoint follows.
C7_NonSuccessAbortsPoll ==
    (resp.code # 0 /\ resp.code # 404 /\ ~(200 <= resp.code /\ resp.code < 300)) =>
        /\ pc = "done"
        /\ outcome = "failed"
        /\ error.stage = "poll"
        /\ error.exc \in {"HTTPError", "JSONDecodeError"}
        /\ sleeps = polls - 1
        /\ downloads = 0
        /\ ops = <<>>

\* the span the configuration asks for: window_seconds as a number, 3600
\* when it is absent or not a number
ConfiguredSpan(conf) ==
    CASE conf.window_seconds = PyNone -> 3600
      [] conf.window_seconds = PyStr(<<"1", "0", "0">>) -> 100
      [] conf.window_seconds = PyStr(<<"1", "h">>) -> 3600
      [] conf.window_seconds = PyInt(0) -> 0
      [] conf.window_seconds = PyInt(-5) -> 0 - 5

\* C8: with a prior checkpoint c the planned window has
\* start = c.last_end_time + 1 and end = min(start + span, now), span being
\* the configured window_seconds (default 3600).
C8_WindowFromCheckpoint ==
    (Planned /\ loaded.has) =>
        LET span == ConfiguredSpan(configuration)
        IN  /\ start_ts = loaded.last_end_time + 1
            /\ end_ts <= start_ts + span
            /\ end_ts <= now_ts
            /\ end_ts = start_ts + span \/ end_ts = now_ts

C8_Witness ==
    /\ Planned
    /\ loaded = StateOf(1000)
    /\ now_ts = 2000
    /\ start_ts = 1001
    /\ end_ts = 2000
    /\ window_seconds = 3600

\* C9: when the planned window has start >= end the invocation ends as a
\* no-op: no submit, poll or download request, no upsert, no checkpoint, and
\* the persisted checkpoint unchanged.
C9_NoWindowIsNoOp ==
    /\ (Planned /\ start_ts >= end_ts) =>
          /\ pc = "done"
          /\ outcome = "noop"
          /\ error = NoError
          /\ enqueued = <<>>
          /\ polls = 0
          /\ downloads = 0
          /\ ops = <<>>
          /\ state = loaded
    /\ outcome = "noop" => start_ts >= end_ts

C9_Witness ==
    /\ outcome = "noop"
    /\ loaded.has
    /\ start_ts = end_ts

\* C10: a successful invocation emits exactly one checkpoint, as its last
\* operation, whose last_end_time is the end of the window it submitted; no
\* invocation emits more than one checkpoint.
C10_OneCheckpointAtWindowEnd ==
    /\ CheckpointCount <= 1
    /\ outcome = "success" =>
          /\ CheckpointCount = 1
          /\ ops[Len(ops)].op = "checkpoint"
          /\ Len(enqueued) = 1
          /\ ops[Len(ops)].last_end_time = enqueued[1].end_time
          /\ enqueued[1].start_time = start_ts
          /\ enqueued[1].end_time = end_ts
          /\ state = StateOf(enqueued[1].end_time)

C10_Witness ==
    /\ outcome = "success"
    /\ loaded = StateOf(1000)
    /\ window_seconds = 3600
    /\ now_ts = 5000
    /\ enqueued[1].start_time = 1001
    /\ enqueued[1].end_time = 4601
    /\ state = StateOf(4601)

\* the start the configuration asks for when initial_start_time is a number
ConfiguredInitialStart(conf) ==
    CASE conf.initial_start_time = PyInt(0) -> 0
      [] conf.initial_start_time = PyStr(<<"9", "0", "0">>) -> 900

\* C11 as stated: without a prior checkpoint the window starts at the
\* configured initial_start_time, for every configured value, 0 included;
\* now - 24h is used only when initial_start_time is not configured.
C11_StartIsConfiguredValue ==
    (Planned /\ ~loaded.has /\ configuration.initial_start_time # PyNone) =>
        start_ts = ConfiguredInitialStart(configuration)

\* C12: every window posted to the enqueue endpoint has start < end,
\* end <= now and end - start <= the configured span, with or without a
\* checkpoint, for every span (zero and negative included) and every time.
C12_SubmittedWindowIsProper ==
    \A i \in 1..Len(enqueued) :
        /\ enqueued[i].start_time = start_ts
        /\ enqueued[i].end_time = end_ts
        /\ enqueued[i].start_time < enqueued[i].end_time
        /\ enqueued[i].end_time <= now_ts
        /\ enqueued[i].end_time - enqueued[i].start_time
               <= ConfiguredSpan(configuration)
        /\ ConfiguredSpan(configuration) > 0

C12_Witness ==
    /\ Len(enqueued) = 1
    /\ ~loaded.has
    /\ enqueued[1].end_time = now_ts
    /\ enqueued[1].end_time - enqueued[1].start_time < ConfiguredSpan(configuration)

\* C13: a failure of submit, poll or download ends the invocation and is not
\* retried in it: at most one submit request and one download request are
\* made, and after the failure nothing is upserted or checkpointed and the
\* checkpoint is unchanged.
C13_StageFailureIsFatal ==
    /\ Len(enqueued) <= 1
    /\ downloads <= 1
    /\ error.stage \in {"submit", "poll", "download"} =>
          /\ pc = "done"
          /\ outcome = "failed"
          /\ Len(enqueued) = 1
          /\ ops = <<>>
          /\ state = loaded
          /\ error.stage = "submit" => polls = 0 /\ downloads = 0
          /\ error.stage = "poll" => polls >= 1 /\ downloads = 0

C13_Witness ==
    /\ error.stage = "download"
    /\ error.exc = "HTTPError"
    /\ downloads = 1
    /\ pc = "done"

\* what line 148 makes of each line of DataLines that is a readable record
ExpectedData(line) ==
    CASE line = <<"1", ",", "\n">> ->
            (<<"a">> :> [kind |-> "str", text |-> <<"1">>, items |-> <<>>])
         @@ (<<"b">> :> [kind |-> "none", text |-> <<>>, items |-> <<>>])
      [] line = <<"2", ",", "x", "y", "\n">> ->
            (<<"a">> :> [kind |-> "str", text |-> <<"2">>, items |-> <<>>])
         @@ (<<"b">> :> [kind |-> "str", text |-> <<"x", "y">>, items |-> <<>>])

\* the lines after the header that a payload is made of
LinesOf(text) ==
    CHOOSE lines \in SeqsUpTo(DataLines, MaxRows) : text = HeaderLine \o Flatten(lines)

IsDataLine(line) == line \in DataLines \ {<<"\n">>, <<TooLong, "\n">>}

Upserts == SelectSeq(ops, LAMBDA o : o.op = "upsert")

IsItemsOf(text, items) ==
    /\ \A k \in 1..Len(items) :
          /\ items[k] # <<>>
          /\ items[k][1] # " "
          /\ items[k][Len(items[k])] # " "
          /\ \A j \in 1..Len(items[k]) : items[k][j] # ","
    /\ \E at \in [1..Len(items) -> 1..Len(text)] :
          /\ \A k \in 1..Len(items) :
                /\ at[k] + Len(items[k]) - 1 <= Len(text)
                /\ SubSeq(text, at[k], at[k] + Len(items[k]) - 1) = items[k]
          /\ \A k \in 1..(Len(items) - 1) :
                \E j \in (at[k] + Len(items[k]))..(at[k + 1] - 1) : text[j] = ","
          /\ \A j \in 1..Len(text) :
                \/ text[j] \in {",", " "}
                \/ \E k \in 1..Len(items) : at[k] <= j /\ j < at[k] + Len(items[k])

\* C15: attribute_ids given as a comma-separated string is sent to the
\* enqueue endpoint as its trimmed, non-empty items in their order
\* ("a, b,c" as ["a", "b", "c"]); given as a list it is sent unchanged.
C15_AttributeIdsParsed ==
    \A i \in 1..Len(enqueued) :
        LET raw == configuration.attribute_ids
            sent == enqueued[i].attribute_ids
        IN  /\ raw.kind = "list" => sent = raw.items
            /\ raw.kind = "str" => IsItemsOf(raw.text, sent)
            /\ raw.text = <<"a", ",", " ", "b", ",", "c">> =>
                   sent = <<<<"a">>, <<"b">>, <<"c">>>>

C15_Witness ==
    /\ Len(enqueued) = 1
    /\ configuration.attribute_ids.text = <<"a", ",", " ", "b", ",", "c">>
    /\ enqueued[1].attribute_ids = <<<<"a">>, <<"b">>, <<"c">>>>
    /\ pc = "poll"

\* the state of the poll state machine: p is the position of the invocation,
\* n the number of requests made and e the exception raised
PollState(p, n, e) ==
    IF p = "poll" THEN (IF n = 0 THEN "Submitted" ELSE "Polling")
    ELSE IF p = "download" THEN "Complete"
    ELSE IF e.exc = "RuntimeError" THEN "Failed"
    ELSE IF e.exc = "TimeoutError" THEN "TimedOut"
    ELSE IF e.exc \in {"HTTPError", "JSONDecodeError"} THEN "PollError"
    ELSE "None"

TerminalPollStates == {"Complete", "Failed", "TimedOut", "PollError"}

\* C16: the poll state machine goes from Submitted to Polling and from there
\* to Complete, Failed, TimedOut or PollError only (the first request is made
\* on entering Polling); a 2xx response whose status is not "complete",
\* "failed" or "error", a missing status included, keeps it in Polling with
\* one sleep; in a terminal state nothing is polled or slept.
C16_PollStateMachine ==
    [][LET from == PollState(pc, polls, error)
           to == PollState(pc', polls', error')
       IN  /\ from \in {"Submitted", "Polling"}
           /\ to \in {"Polling"} \cup TerminalPollStates
           /\ to = "Polling" => polls' = polls + 1 /\ sleeps' = sleeps + 1
           /\ (/\ polls' = polls + 1
               /\ 200 <= resp'.code /\ resp'.code < 300
               /\ resp'.body.json
               /\ resp'.body.status \notin {"complete", "failed", "error"}) =>
                  /\ to = "Polling"
                  /\ sleeps' = sleeps + 1
                  /\ slept' = slept + poll_interval
                  /\ error' = NoError
      ]_vars

C16_Witness ==
    /\ pc = "poll"
    /\ polls = 2
    /\ sleeps = 2
    /\ resp.code = 200
    /\ resp.body = JsonInfo("", FALSE)

\* C17: while the job is awaited the number of sleeps never exceeds
\* max_tries, every sleep lasts poll_interval and follows a response that
\* is not terminal (a 404 or a status that is not terminal), so the time
\* slept is at most max_tries * poll_interval.
C17_SleepsBounded ==
    /\ [](/\ sleeps <= max_tries
          /\ sleeps <= polls
          /\ slept = sleeps * poll_interval
          /\ slept <= max_tries * poll_interval)
    /\ [][sleeps' # sleeps =>
             /\ sleeps' = sleeps + 1
             /\ slept' = slept + poll_interval
             /\ polls' = polls + 1
             /\ pc = "poll" /\ pc' = "poll" /\ error' = NoError
             /\ \/ resp'.code = 404
                \/ /\ resp'.body.json
                   /\ resp'.body.status \notin {"complete", "failed", "error"}
         ]_vars

C17_Witness ==
    /\ max_tries = MaxTries
    /\ sleeps = MaxTries
    /\ poll_interval = DEFAULT_POLL_INTERVAL
    /\ slept = MaxTries * DEFAULT_POLL_INTERVAL
    /\ error.exc = "TimeoutError"

\* C18: over any sequence of invocations, whatever their outcome and
\* whatever the clock does, the persisted last_end_time never decreases, and
\* a checkpoint that is committed is strictly greater than the checkpoint
\* the invocation started from.
C18_CheckpointNeverDecreases ==
    [][state' # state =>
          /\ state'.has
          /\ state.has => state'.last_end_time > state.last_end_time
          /\ loaded.has => state'.last_end_time > loaded.last_end_time
          /\ state = loaded
      ]_vars

C18_Witness ==
    /\ runs = 2
    /\ outcome = "success"
    /\ loaded.has
    /\ loaded # StateOf(1000)
    /\ state.last_end_time > loaded.last_end_time

\* C19: of two consecutive successful invocations the second window starts
\* at the end of the first + 1, so the windows of the successful invocations
\* do not overlap and increase strictly, and no window is extracted again
\* once its checkpoint is committed.
C19_WindowsAdjacent ==
    /\ \A i \in 1..Len(synced) : synced[i].start < synced[i].end
    /\ \A i \in 1..(Len(synced) - 1) : synced[i + 1].start = synced[i].end + 1
    /\ \A i, j \in 1..Len(synced) : i < j => synced[i].end < synced[j].start
    /\ (enqueued # <<>> /\ outcome # "success") =>
          \A i \in 1..Len(synced) : synced[i].end < enqueued[1].start_time

C19_Witness ==
    /\ Len(synced) = 2
    /\ synced[1] = [start |-> 1001, end |-> 2000]
    /\ synced[2] = [start |-> 2001, end |-> 5000]
    /\ outcome = "success"

Running == pc \notin {"idle", "done"}

IsNoOp ==
    /\ outcome = "noop"
    /\ error = NoError
    /\ enqueued = <<>> /\ ops = <<>> /\ state = loaded

IsSuccess ==
    /\ outcome = "success"
    /\ error = NoError
    /\ CheckpointCount = 1 /\ state = StateOf(end_ts)

IsFatal ==
    /\ outcome = "failed"
    /\ CheckpointCount = 0 /\ state = loaded
    /\ <<error.stage, error.exc>> \in
          {<<"submit", "HTTPError">>, <<"submit", "JSONDecodeError">>,
           <<"submit", "KeyError">>,
           <<"poll", "HTTPError">>, <<"poll", "JSONDecodeError">>,
           <<"poll", "RuntimeError">>, <<"poll", "TimeoutError">>,
           <<"download", "KeyError">>, <<"download", "HTTPError">>,
           <<"download", "UnicodeDecodeError">>, <<"decode", "csv.Error">>}

\* C20: when every request returns and the sink takes every operation, every
\* invocation ends, and it ends as exactly one of a no-op, a success (the
\* checkpoint committed) and a fatal error (submit, poll, job failed,
\* timeout, download or decode); the job is never polled forever.
C20_InvocationTerminates ==
    /\ Running ~> (pc = "done")
    /\ [](polls <= DEFAULT_MAX_TRIES)
    /\ []((pc = "done" /\ error.stage \notin {"upsert", "checkpoint"}) =>
             /\ IsNoOp \/ IsSuccess \/ IsFatal
             /\ ~(IsNoOp /\ IsSuccess)
             /\ ~(IsNoOp /\ IsFatal)
             /\ ~(IsSuccess /\ IsFatal))

C20_Witness ==
    /\ pc = "done"
    /\ polls = DEFAULT_MAX_TRIES
    /\ sleeps = DEFAULT_MAX_TRIES
    /\ IsFatal
    /\ error.exc = "TimeoutError"

=============================================================================
